---------------------------- MODULE Spec2Model ----------------------------
(***************************************************************************)
(* Model of the masker's streaming multi-pattern matcher                   *)
(* (matches.add, newMatcher, matcher.write, sequenceDetector.writeByte,    *)
(* sequenceDetector.findShift).                                            *)
(*                                                                         *)
(* Go slices are 0-based, TLA+ sequences are 1-based: the Go expression    *)
(* sequence[k] is written sequence[k + 1] here; cursors and offsets keep   *)
(* their Go (0-based) values.                                              *)
(***************************************************************************)
EXTENDS Integers, Sequences, FiniteSets, TLC

VARIABLES
    phase,         \* "new" before newMatcher has been called, "ready" after
    matchers,      \* matcher.matchers: one [sequence, currentIndex] per detector
    currentIndex,  \* matcher.currentIndex
    panicked,      \* a write call ended in a run-time panic (index out of range)
    res,           \* the table returned by the last write call
    stream,        \* history: all bytes passed to write so far
    offsetBefore,  \* history: matcher.currentIndex when the last write call began
    calls,         \* history: number of write calls so far
    unionPairs,    \* history: union of the (offset, length) pairs of all returned tables
    m,             \* a matches table under a sequence of add calls
    history,       \* history: the (index, length) arguments of those add calls, in order
    goroutine,     \* per concurrent write call: its chunk, loop position, locals
    interleaved,   \* history: a concurrent write call took a step during the other
    rmPc,          \* RmCommand.Run: the statement it is at
    rmCmd,         \* RmCommand: the path's properties and the recursive and force flags
    rmLog,         \* history: the calls Run made to its collaborators, with results
    rmRet          \* the value Run returned

vars == <<phase, matchers, currentIndex, panicked, res, stream, offsetBefore,
          calls, unionPairs, m, history, goroutine, interleaved,
          rmPc, rmCmd, rmLog, rmRet>>

matcherVars == <<phase, matchers, currentIndex, panicked, res, stream,
                 offsetBefore, calls, unionPairs>>

addVars == <<m, history>>

raceVars == <<goroutine, interleaved>>

rmVars == <<rmPc, rmCmd, rmLog, rmRet>>

---------------------------------------------------------------------------
(* Bounds of the model *)

MaxPatterns == 2   \* most patterns in a generated pattern list
MaxBytes == 3      \* most bytes in all patterns of a generated pattern list
MaxStream == 5     \* most bytes fed to a matcher
MaxCalls == 2      \* most write calls on one matcher
MaxAdds == 4       \* most add calls on one table

Alphabet == {"a", "b"}

AddIndexes == {0, 5, 6}

AddLengths == 1..3

---------------------------------------------------------------------------
(* Inputs *)

RECURSIVE SeqsUpTo(_, _)
SeqsUpTo(S, n) ==
    IF n = 0 THEN {<<>>}
    ELSE LET shorter == SeqsUpTo(S, n - 1)
         IN  shorter \cup {Append(s, x) : s \in shorter, x \in S}

\* The lists of at most n patterns over the alphabet with at most the given
\* number of bytes in all; a pattern may be empty.
RECURSIVE ListsUpTo(_, _)
ListsUpTo(n, bytes) ==
    IF n = 0 THEN {<<>>}
    ELSE {<<>>} \cup
         UNION {{<<p>> \o l : l \in ListsUpTo(n - 1, bytes - Len(p))} :
                    p \in SeqsUpTo(Alphabet, bytes)}

AaAaa == << <<"a", "a">>, <<"a", "a", "a">> >>

Foofoobar == <<"f", "o", "o", "f", "o", "o", "b", "a", "r">>

Foofoofoobar == <<"f", "o", "o", "f", "o", "o", "f", "o", "o", "b", "a", "r">>

\* The pattern lists a matcher is constructed with: the generated ones and
\* the two lists of the documented examples.
PatternLists == ListsUpTo(MaxPatterns, MaxBytes) \cup {AaAaa, <<Foofoobar>>}

\* The chunks a caller may pass next: any bytes over the alphabet within the
\* stream bound; the matcher for foofoobar is fed foofoofoobar in any chunking.
Chunks(seqs, consumed) ==
    IF seqs = <<Foofoobar>>
    THEN {SubSeq(Foofoofoobar, Len(consumed) + 1, k) :
              k \in Len(consumed)..Len(Foofoofoobar)}
    ELSE IF Len(consumed) >= MaxStream THEN {<<>>}
    ELSE SeqsUpTo(Alphabet, MaxStream - Len(consumed))

---------------------------------------------------------------------------
(* matches *)

EmptyMatches == [o \in {} |-> 0]

add_overwrite(t, index, length) ==
    [o \in DOMAIN t \cup {index} |-> IF o = index THEN length ELSE t[o]]

add_keepFirst(t, index, length) ==
    IF index \notin DOMAIN t
    THEN [o \in DOMAIN t \cup {index} |-> IF o = index THEN length ELSE t[o]]
    ELSE t

add(t, index, length) ==
    IF index \notin DOMAIN t \/ t[index] < length
    THEN [o \in DOMAIN t \cup {index} |-> IF o = index THEN length ELSE t[o]]
    ELSE t

---------------------------------------------------------------------------
(* sequenceDetector *)

shiftOk_firstOnly(sequence, cur, offset, i) ==
    i >= cur - offset \/ sequence[i + 1] = sequence[i + offset + 1]

\* The inner loop of findShift: does sequence[i] = sequence[i + offset] hold
\* for every i in 0 .. cur - offset - 1, scanning from i upwards?
RECURSIVE shiftOk(_, _, _, _)
shiftOk(sequence, cur, offset, i) ==
    IF i >= cur - offset THEN TRUE
    ELSE IF sequence[i + 1] # sequence[i + offset + 1] THEN FALSE
    ELSE shiftOk(sequence, cur, offset, i + 1)

\* The outer loop of findShift, from the given offset upwards.
RECURSIVE findShiftFrom(_, _, _)
findShiftFrom(sequence, cur, offset) ==
    IF offset > cur THEN cur
    ELSE IF shiftOk(sequence, cur, offset, 0) THEN offset
    ELSE findShiftFrom(sequence, cur, offset + 1)

findShift_reset(sequence, cur) == cur

findShift(sequence, cur) == findShiftFrom(sequence, cur, 1)

\* writeByte that forgets to reset the cursor when it completes a match.
RECURSIVE writeByteAt_noReset(_, _, _, _)
writeByteAt_noReset(sequence, cur, in, depth) ==
    IF cur >= Len(sequence)
    THEN [currentIndex |-> cur, match |-> FALSE, panic |-> TRUE, depth |-> depth]
    ELSE IF sequence[cur + 1] = in
    THEN [currentIndex |-> cur + 1, match |-> cur + 1 = Len(sequence),
          panic |-> FALSE, depth |-> depth]
    ELSE LET shifted == cur - findShift(sequence, cur)
         IN  IF sequence[shifted + 1] = in
             THEN writeByteAt_noReset(sequence, shifted, in, depth + 1)
             ELSE [currentIndex |-> shifted, match |-> FALSE, panic |-> FALSE,
                   depth |-> depth]

\* writeByte that keeps shifting and retrying until the byte matches or the
\* cursor is 0.
RECURSIVE writeByteAt_retryAll(_, _, _, _)
writeByteAt_retryAll(sequence, cur, in, depth) ==
    IF cur >= Len(sequence)
    THEN [currentIndex |-> cur, match |-> FALSE, panic |-> TRUE, depth |-> depth]
    ELSE IF sequence[cur + 1] = in
    THEN IF cur + 1 = Len(sequence)
         THEN [currentIndex |-> 0, match |-> TRUE, panic |-> FALSE, depth |-> depth]
         ELSE [currentIndex |-> cur + 1, match |-> FALSE, panic |-> FALSE, depth |-> depth]
    ELSE IF cur = 0
    THEN [currentIndex |-> 0, match |-> FALSE, panic |-> FALSE, depth |-> depth]
    ELSE writeByteAt_retryAll(sequence, cur - findShift(sequence, cur), in, depth + 1)

\* writeByte that, on completing a match, moves the cursor to the longest
\* border of the pattern instead of 0.
RECURSIVE writeByteAt_keepBorder(_, _, _, _)
writeByteAt_keepBorder(sequence, cur, in, depth) ==
    IF cur >= Len(sequence)
    THEN [currentIndex |-> cur, match |-> FALSE, panic |-> TRUE, depth |-> depth]
    ELSE IF sequence[cur + 1] = in
    THEN IF cur + 1 = Len(sequence)
         THEN [currentIndex |-> Len(sequence) - findShift(sequence, Len(sequence)),
               match |-> TRUE, panic |-> FALSE, depth |-> depth]
         ELSE [currentIndex |-> cur + 1, match |-> FALSE, panic |-> FALSE, depth |-> depth]
    ELSE LET shifted == cur - findShift(sequence, cur)
         IN  IF sequence[shifted + 1] = in
             THEN writeByteAt_keepBorder(sequence, shifted, in, depth + 1)
             ELSE [currentIndex |-> shifted, match |-> FALSE, panic |-> FALSE,
                   depth |-> depth]

\* writeByte on a detector with the given sequence and cursor. The result is
\* the new cursor, the returned boolean, whether an index expression was out
\* of range (a run-time panic) and the depth of the self-calls.
RECURSIVE writeByteAt(_, _, _, _)
writeByteAt(sequence, cur, in, depth) ==
    IF cur >= Len(sequence)
    THEN [currentIndex |-> cur, match |-> FALSE, panic |-> TRUE, depth |-> depth]
    ELSE IF sequence[cur + 1] = in
    THEN IF cur + 1 = Len(sequence)
         THEN [currentIndex |-> 0, match |-> TRUE, panic |-> FALSE, depth |-> depth]
         ELSE [currentIndex |-> cur + 1, match |-> FALSE, panic |-> FALSE, depth |-> depth]
    ELSE LET shifted == cur - findShift(sequence, cur)
         IN  IF sequence[shifted + 1] = in
             THEN writeByteAt(sequence, shifted, in, depth + 1)
             ELSE [currentIndex |-> shifted, match |-> FALSE, panic |-> FALSE,
                   depth |-> depth]

writeByte(sequence, cur, in) == writeByteAt(sequence, cur, in, 1)

---------------------------------------------------------------------------
(* matcher *)

newMatcher(sequences) ==
    [matchers |-> [i \in 1..Len(sequences) |->
                       [sequence |-> sequences[i], currentIndex |-> 0]],
     currentIndex |-> 0]

matchOffset_offByOne(base, i, length) == base + (i - length)

matchOffset_noBase(base, i, length) == i - length + 1

\* The index passed to add in write: mb.currentIndex + int64(i - len(sequence) + 1).
matchOffset(base, i, length) == base + (i - length + 1)

\* The inner loop of write: byte b, at index i of the chunk, is fed to the
\* detectors k, k + 1, ... in order. A panic ends the loop where it happens.
RECURSIVE writeDetectors(_, _, _, _, _, _)
writeDetectors(ms, base, i, b, k, t) ==
    IF k > Len(ms) THEN [matchers |-> ms, res |-> t, panic |-> FALSE]
    ELSE LET r == writeByte(ms[k].sequence, ms[k].currentIndex, b)
             ms2 == [ms EXCEPT ![k].currentIndex = r.currentIndex]
             len == Len(ms[k].sequence)
         IN  IF r.panic THEN [matchers |-> ms, res |-> t, panic |-> TRUE]
             ELSE writeDetectors(ms2, base, i, b, k + 1,
                      IF r.match THEN add(t, matchOffset(base, i, len), len)
                      ELSE t)

\* The outer loop of write, from index i of the chunk upwards.
RECURSIVE writeBytes(_, _, _, _, _)
writeBytes(ms, base, in, i, t) ==
    IF i >= Len(in) THEN [matchers |-> ms, res |-> t, panic |-> FALSE]
    ELSE LET r == writeDetectors(ms, base, i, in[i + 1], 1, t)
         IN  IF r.panic THEN r
             ELSE writeBytes(r.matchers, base, in, i + 1, r.res)

write_assignLen(mb, in) ==
    LET r == writeBytes(mb.matchers, mb.currentIndex, in, 0, EmptyMatches)
    IN  [matchers |-> r.matchers,
         currentIndex |-> IF r.panic THEN mb.currentIndex ELSE Len(in),
         res |-> r.res, panic |-> r.panic]

write_resetCursors(mb, in) ==
    LET r == writeBytes([k \in 1..Len(mb.matchers) |->
                             [mb.matchers[k] EXCEPT !.currentIndex = 0]],
                        mb.currentIndex, in, 0, EmptyMatches)
    IN  [matchers |-> r.matchers,
         currentIndex |-> IF r.panic THEN mb.currentIndex
                          ELSE mb.currentIndex + Len(in),
         res |-> r.res, panic |-> r.panic]

\* write on the matcher mb: the matcher's new fields, the returned table, and
\* whether the call panicked (then nothing is returned and currentIndex is
\* not advanced).
write(mb, in) ==
    LET r == writeBytes(mb.matchers, mb.currentIndex, in, 0, EmptyMatches)
    IN  [matchers |-> r.matchers,
         currentIndex |-> IF r.panic THEN mb.currentIndex
                          ELSE mb.currentIndex + Len(in),
         res |-> r.res, panic |-> r.panic]

---------------------------------------------------------------------------
(* The matcher's life: newMatcher, then any number of write calls *)

Pairs(t) == {<<o, t[o]>> : o \in DOMAIN t}

\* The two callers of write in the unsynchronized scenario.
Goroutines == {1, 2}

\* A write call that has not begun.
IdleCall == [stage |-> "idle", in |-> <<>>, i |-> 0, k |-> 1, local |-> 0,
             res |-> EmptyMatches]

Init ==
    /\ phase = "new"
    /\ matchers = <<>>
    /\ currentIndex = 0
    /\ panicked = FALSE
    /\ res = EmptyMatches
    /\ stream = <<>>
    /\ offsetBefore = 0
    /\ calls = 0
    /\ unionPairs = {}
    /\ m = EmptyMatches
    /\ history = <<>>
    /\ goroutine = [g \in Goroutines |-> IdleCall]
    /\ interleaved = FALSE
    /\ rmPc = "start"
    /\ rmCmd = [hasVersion |-> FALSE, dirPathOk |-> FALSE, isRepoPath |-> FALSE,
                secretPathOk |-> FALSE, versionOk |-> FALSE,
                recursive |-> FALSE, force |-> FALSE]
    /\ rmLog = <<>>
    /\ rmRet = "none"

NewMatcher(sequences) ==
    /\ phase = "new"
    /\ LET mb == newMatcher(sequences)
       IN  /\ matchers' = mb.matchers
           /\ currentIndex' = mb.currentIndex
    /\ phase' = "ready"
    /\ UNCHANGED <<panicked, res, stream, offsetBefore, calls, unionPairs>>
    /\ UNCHANGED <<addVars, raceVars, rmVars>>

Write(in) ==
    /\ phase = "ready"
    /\ ~panicked
    /\ calls < MaxCalls
    /\ \E r \in {write([matchers |-> matchers, currentIndex |-> currentIndex], in)} :
           /\ matchers' = r.matchers
           /\ currentIndex' = r.currentIndex
           /\ panicked' = r.panic
           /\ res' = IF r.panic THEN EmptyMatches ELSE r.res
           /\ unionPairs' = IF r.panic THEN unionPairs
                            ELSE unionPairs \cup Pairs(r.res)
    /\ stream' = stream \o in
    /\ offsetBefore' = currentIndex
    /\ calls' = calls + 1
    /\ UNCHANGED phase
    /\ UNCHANGED <<addVars, raceVars, rmVars>>

Next ==
    \/ \E sequences \in PatternLists : NewMatcher(sequences)
    \/ \E in \in Chunks([i \in 1..Len(matchers) |-> matchers[i].sequence], stream) :
           Write(in)

Spec == Init /\ [][Next]_vars

---------------------------------------------------------------------------
(* A matches table under add calls *)

Add(index, length) ==
    /\ Len(history) < MaxAdds
    /\ m' = add(m, index, length)
    /\ history' = Append(history, <<index, length>>)
    /\ UNCHANGED <<matcherVars, raceVars, rmVars>>

NextAdd == \E index \in AddIndexes, length \in AddLengths : Add(index, length)

SpecAdd == Init /\ [][NextAdd]_vars

---------------------------------------------------------------------------
(* Two write calls on one matcher without synchronization.                 *)
(* A call is split at its reads and writes of the shared fields: each      *)
(* writeByte reads the detector's cursor once and writes it once, the      *)
(* match offset reads matcher.currentIndex, and the final += reads         *)
(* matcher.currentIndex and then writes it.                                *)

MaxRaceChunk == 2   \* most bytes in the chunk of a concurrent write call

RacePatternLists == {<< <<"a", "b">> >>, << <<"a">>, <<"a", "b">> >>}

indexAfter_assign(local, in) == Len(in)

\* The value stored by mb.currentIndex += int64(len(in)), from the value read.
indexAfter(local, in) == local + Len(in)

\* Some write call is between its first and its last step.
Running(g) == goroutine[g].stage \notin {"idle", "done"}

Interleaves(g) == \E h \in Goroutines \ {g} : Running(h)

\* The loop position that follows detector k at byte i of the chunk.
AfterDetector(c) ==
    IF c.k < Len(matchers) THEN [c EXCEPT !.k = c.k + 1, !.stage = "read"]
    ELSE IF c.i + 1 < Len(c.in) THEN [c EXCEPT !.i = c.i + 1, !.k = 1, !.stage = "read"]
    ELSE [c EXCEPT !.stage = "readIndex"]

\* write is called: res := matches{} and the loops are entered.
WriteBegin(g, in) ==
    /\ phase = "ready"
    /\ goroutine[g].stage = "idle"
    /\ goroutine' = [goroutine EXCEPT ![g] =
           [IdleCall EXCEPT !.in = in,
                            !.stage = IF Len(in) > 0 /\ Len(matchers) > 0
                                      THEN "read" ELSE "readIndex"]]
    /\ interleaved' = (interleaved \/ Interleaves(g))
    /\ UNCHANGED <<matcherVars, addVars, rmVars>>

\* writeByte reads the detector's cursor.
ReadCursor(g) ==
    /\ goroutine[g].stage = "read"
    /\ goroutine' = [goroutine EXCEPT
           ![g].local = matchers[goroutine[g].k].currentIndex,
           ![g].stage = "write"]
    /\ interleaved' = (interleaved \/ Interleaves(g))
    /\ UNCHANGED <<matcherVars, addVars, rmVars>>

\* writeByte stores the cursor it computed from the value read; on a match
\* write reads matcher.currentIndex and adds the match to its table.
WriteCursor(g) ==
    /\ goroutine[g].stage = "write"
    /\ LET c == goroutine[g]
           seq == matchers[c.k].sequence
           r == writeByte(seq, c.local, c.in[c.i + 1])
           t == IF r.match
                THEN add(c.res, matchOffset(currentIndex, c.i, Len(seq)), Len(seq))
                ELSE c.res
       IN  /\ matchers' = [matchers EXCEPT ![c.k].currentIndex = r.currentIndex]
           /\ goroutine' = [goroutine EXCEPT ![g] = AfterDetector([c EXCEPT !.res = t])]
    /\ interleaved' = (interleaved \/ Interleaves(g))
    /\ UNCHANGED <<phase, currentIndex, panicked, res, stream, offsetBefore,
                   calls, unionPairs>>
    /\ UNCHANGED <<addVars, rmVars>>

\* mb.currentIndex += int64(len(in)): the read.
ReadIndex(g) ==
    /\ goroutine[g].stage = "readIndex"
    /\ goroutine' = [goroutine EXCEPT ![g].local = currentIndex,
                                      ![g].stage = "writeIndex"]
    /\ interleaved' = (interleaved \/ Interleaves(g))
    /\ UNCHANGED <<matcherVars, addVars, rmVars>>

\* mb.currentIndex += int64(len(in)): the write; the call returns its table.
WriteIndex(g) ==
    /\ goroutine[g].stage = "writeIndex"
    /\ currentIndex' = indexAfter(goroutine[g].local, goroutine[g].in)
    /\ goroutine' = [goroutine EXCEPT ![g].stage = "done"]
    /\ interleaved' = (interleaved \/ Interleaves(g))
    /\ UNCHANGED <<phase, matchers, panicked, res, stream, offsetBefore,
                   calls, unionPairs>>
    /\ UNCHANGED <<addVars, rmVars>>

NextRace ==
    \/ \E sequences \in RacePatternLists : NewMatcher(sequences)
    \/ \E g \in Goroutines, in \in SeqsUpTo(Alphabet, MaxRaceChunk) : WriteBegin(g, in)
    \/ \E g \in Goroutines : ReadCursor(g)
    \/ \E g \in Goroutines : WriteCursor(g)
    \/ \E g \in Goroutines : ReadIndex(g)
    \/ \E g \in Goroutines : WriteIndex(g)

SpecRace == Init /\ [][NextRace]_vars

---------------------------------------------------------------------------
(* RmCommand.Run (internals/secrethub/rm.go).                              *)
(* The path's properties (HasVersion, whether ToDirPath, ToSecretPath and  *)
(* GetVersion succeed, IsRepoPath) and the flags are inputs of the         *)
(* command; the results of newClient, of the client's calls and of the     *)
(* confirmation prompt are chosen by the environment at each call.         *)

RmCommands ==
    [hasVersion : BOOLEAN, dirPathOk : BOOLEAN, isRepoPath : BOOLEAN,
     secretPathOk : BOOLEAN, versionOk : BOOLEAN,
     recursive : BOOLEAN, force : BOOLEAN]

CallResults == {"ok", "err"}

GetTreeResults == {"ok", "ErrDirNotFound", "err"}

GetResults == {"ok", "ErrSecretNotFound", "err"}

PromptResults == {"confirmed", "notConfirmed", "ErrCannotAsk", "err"}

Return(e) == [pc |-> "done", ret |-> e]

Goto(pc) == [pc |-> pc, ret |-> "none"]

\* Run from ToSecretPath on: the version branch up to its confirmation, or
\* the existence check of the secret.
secretBranch(cmd) ==
    IF ~cmd.secretPathOk THEN Return("err:ToSecretPath")
    ELSE IF cmd.hasVersion
    THEN IF ~cmd.versionOk THEN Return("err:GetVersion") ELSE Goto("askVersion")
    ELSE Goto("Get")

\* Run after newClient, up to its first call to the client or the prompt.
pathBranch(cmd) ==
    IF ~cmd.hasVersion
    THEN IF ~cmd.dirPathOk THEN Return("err:ToDirPath")
         ELSE IF cmd.isRepoPath THEN Return("ErrCannotRemoveRootDir")
         ELSE Goto("GetTree")
    ELSE secretBranch(cmd)

afterGetTree_noFlagCheck(cmd, result) ==
    IF result = "ok" THEN Goto("askDir")
    ELSE IF result # "ErrDirNotFound" THEN Return("err:GetTree")
    ELSE secretBranch(cmd)

\* Run after client.Dirs().GetTree returned.
afterGetTree(cmd, result) ==
    IF result = "ok"
    THEN IF ~cmd.recursive THEN Return("ErrCannotRemoveDir") ELSE Goto("askDir")
    ELSE IF result # "ErrDirNotFound" THEN Return("err:GetTree")
    ELSE secretBranch(cmd)

\* Run after client.Secrets().Get returned.
afterGet(cmd, result) ==
    IF result = "ErrSecretNotFound" THEN Return("ErrResourceNotFound")
    ELSE Goto("askSecret")

askRmConfirmation_ignoreAnswer(force, answer) ==
    IF force THEN [ok |-> TRUE, err |-> "nil"]
    ELSE IF answer = "ErrCannotAsk" THEN [ok |-> FALSE, err |-> "ErrCannotDoWithoutForce"]
    ELSE IF answer = "err" THEN [ok |-> FALSE, err |-> "err:Confirm"]
    ELSE [ok |-> TRUE, err |-> "nil"]

\* askRmConfirmation, given the result of ui.ConfirmCaseInsensitive (which is
\* not called when force is set).
askRmConfirmation(force, answer) ==
    IF force THEN [ok |-> TRUE, err |-> "nil"]
    ELSE IF answer = "ErrCannotAsk" THEN [ok |-> FALSE, err |-> "ErrCannotDoWithoutForce"]
    ELSE IF answer = "err" THEN [ok |-> FALSE, err |-> "err:Confirm"]
    ELSE IF answer # "confirmed" THEN [ok |-> FALSE, err |-> "nil"]
    ELSE [ok |-> TRUE, err |-> "nil"]

\* The delete call of rmDir, rmSecret and rmSecretVersion.
DeleteCallOf(pc) ==
    CASE pc \in {"askDir", "deleteDir"} -> "Dirs.Delete"
      [] pc \in {"askSecret", "deleteSecret"} -> "Secrets.Delete"
      [] pc \in {"askVersion", "deleteVersion"} -> "Versions.Delete"

DeletePcOf(pc) ==
    CASE pc = "askDir" -> "deleteDir"
      [] pc = "askSecret" -> "deleteSecret"
      [] pc = "askVersion" -> "deleteVersion"

\* Run is called on a command and calls newClient.
RmRun(cmd, result) ==
    /\ rmPc = "start"
    /\ rmCmd' = cmd
    /\ rmLog' = Append(rmLog, <<"newClient", result>>)
    /\ LET next == IF result # "ok" THEN Return("err:newClient") ELSE pathBranch(cmd)
       IN  rmPc' = next.pc /\ rmRet' = next.ret
    /\ UNCHANGED <<matcherVars, addVars, raceVars>>

\* client.Dirs().GetTree returns.
RmGetTree(result) ==
    /\ rmPc = "GetTree"
    /\ rmLog' = Append(rmLog, <<"Dirs.GetTree", result>>)
    /\ LET next == afterGetTree(rmCmd, result)
       IN  rmPc' = next.pc /\ rmRet' = next.ret
    /\ UNCHANGED rmCmd
    /\ UNCHANGED <<matcherVars, addVars, raceVars>>

\* client.Secrets().Get returns.
RmGet(result) ==
    /\ rmPc = "Get"
    /\ rmLog' = Append(rmLog, <<"Secrets.Get", result>>)
    /\ LET next == afterGet(rmCmd, result)
       IN  rmPc' = next.pc /\ rmRet' = next.ret
    /\ UNCHANGED rmCmd
    /\ UNCHANGED <<matcherVars, addVars, raceVars>>

\* rmDir, rmSecret or rmSecretVersion calls askRmConfirmation.
RmAskConfirmation(answer) ==
    /\ rmPc \in {"askDir", "askSecret", "askVersion"}
    /\ rmLog' = IF rmCmd.force THEN rmLog ELSE Append(rmLog, <<"Confirm", answer>>)
    /\ LET r == askRmConfirmation(rmCmd.force, answer)
           next == IF r.err # "nil" THEN Return(r.err)
                   ELSE IF ~r.ok THEN Return("nil")
                   ELSE Goto(DeletePcOf(rmPc))
       IN  rmPc' = next.pc /\ rmRet' = next.ret
    /\ UNCHANGED rmCmd
    /\ UNCHANGED <<matcherVars, addVars, raceVars>>

\* The delete call of rmDir, rmSecret or rmSecretVersion returns.
RmDelete(result) ==
    /\ rmPc \in {"deleteDir", "deleteSecret", "deleteVersion"}
    /\ rmLog' = Append(rmLog, <<DeleteCallOf(rmPc), result>>)
    /\ rmPc' = "done"
    /\ rmRet' = IF result = "ok" THEN "nil" ELSE "err:Delete"
    /\ UNCHANGED rmCmd
    /\ UNCHANGED <<matcherVars, addVars, raceVars>>

NextRm ==
    \/ \E cmd \in RmCommands, result \in CallResults : RmRun(cmd, result)
    \/ \E result \in GetTreeResults : RmGetTree(result)
    \/ \E result \in GetResults : RmGet(result)
    \/ \E answer \in PromptResults : RmAskConfirmation(answer)
    \/ \E result \in CallResults : RmDelete(result)

SpecRm == Init /\ [][NextRm]_vars

---------------------------------------------------------------------------
(* Vocabulary of the properties *)

\* The patterns of the matcher, in detector order.
sequencesOf(ms) == [i \in 1..Len(ms) |-> ms[i].sequence]

NonEmptyPatterns == \A k \in 1..Len(matchers) : Len(matchers[k].sequence) > 0

\* The matcher has been constructed with non-empty patterns and every write
\* call so far has returned.
Serving == phase = "ready" /\ ~panicked /\ NonEmptyPatterns

\* S[o .. o + Len(P)) = P, with o a 0-based offset.
Occurs(S, o, P) ==
    /\ o >= 0
    /\ o + Len(P) <= Len(S)
    /\ SubSeq(S, o + 1, o + Len(P)) = P

MaxOf(S) == CHOOSE x \in S : \A y \in S : y <= x

\* The table that keeps, for every offset of a set of (offset, length) pairs,
\* the greatest length paired with it.
MergeLongest(pairs) ==
    [o \in {p[1] : p \in pairs} |-> MaxOf({p[2] : p \in {q \in pairs : q[1] = o}})]

\* The table a fresh matcher with the same patterns returns when it is fed
\* the whole stream in a single write call.
SingleCall == write(newMatcher(sequencesOf(matchers)), stream).res

---------------------------------------------------------------------------
(* C1 .. C10 *)

\* C1 (completeness): with non-empty patterns, for every pattern P and every
\* offset o with S[o .. o+len(P)) = P whose last byte o+len(P)-1 was consumed
\* by the last write call, the table returned by that call contains key o
\* with a length of at least len(P).
C1_Completeness ==
    (Serving /\ calls > 0) =>
        \A k \in 1..Len(matchers) : \A o \in 0..Len(stream) :
            LET P == matchers[k].sequence
            IN  (/\ Occurs(stream, o, P)
                 /\ offsetBefore <= o + Len(P) - 1
                 /\ o + Len(P) - 1 < currentIndex)
                    => (o \in DOMAIN res /\ res[o] >= Len(P))

\* C2 (soundness): with non-empty patterns, every entry (o, L) of a table
\* returned by write satisfies S[o .. o+L) = P for some configured pattern P
\* of length L, S being the whole stream consumed so far.
C2_Soundness ==
    Serving =>
        \A o \in DOMAIN res :
            \E k \in 1..Len(matchers) :
                /\ Len(matchers[k].sequence) = res[o]
                /\ Occurs(stream, o, matchers[k].sequence)

\* C3 as stated (chunking invariance of the plain union): the union of the
\* (offset, length) pairs returned across the write calls is the set of pairs
\* of the table a fresh matcher returns for the whole stream in one call.
C3_UnionEqualsSingleCall ==
    Serving => unionPairs = Pairs(SingleCall)

\* C3 as amended: the tables returned across the write calls, merged by
\* keeping for every offset the greatest length returned for it, are the
\* table a fresh matcher returns for the whole stream in one call.
C3_MergedEqualsSingleCall ==
    Serving => MergeLongest(unionPairs) = SingleCall

\* C3 witness: after two calls the tables returned hold two lengths for one offset.
C3_Witness ==
    /\ Serving
    /\ calls >= 2
    /\ \E p \in unionPairs, q \in unionPairs : p[1] = q[1] /\ p[2] < q[2]

\* C4 (an empty pattern is rejected at construction): no usable matcher holds
\* a zero-length pattern, and no write indexes past the end of a pattern.
C4_EmptyPatternRejected ==
    /\ phase = "ready" => NonEmptyPatterns
    /\ ~panicked

\* C5 (overlapping patterns): a matcher for aa and aaa fed aaaa in one write
\* call returns a table with offset 0 at length 3 and with offset 1 as a key.
C5_OverlappingPatterns ==
    (/\ phase = "ready"
     /\ sequencesOf(matchers) = AaAaa
     /\ calls = 1
     /\ stream = <<"a", "a", "a", "a">>)
        => (/\ 0 \in DOMAIN res
            /\ res[0] = 3
            /\ 1 \in DOMAIN res)

\* C6 (self-overlap recovery): a matcher for foofoobar fed foofoofoobar in one
\* write call returns a table with offset 3 at length 9, and after the third f
\* (the 7th byte) the cursor is 4: shifted back by 3 from 6, then advanced.
C6_SelfOverlapRecovery ==
    (phase = "ready" /\ sequencesOf(matchers) = <<Foofoobar>>) =>
        /\ (calls = 1 /\ stream = Foofoofoobar)
               => (3 \in DOMAIN res /\ res[3] = 9)
        /\ stream = SubSeq(Foofoofoobar, 1, 7)
               => matchers[1].currentIndex = 4

\* C6 witness: foofoofoobar has been fed to the foofoobar matcher in one call.
C6_Witness ==
    /\ phase = "ready"
    /\ sequencesOf(matchers) = <<Foofoobar>>
    /\ calls = 1
    /\ stream = Foofoofoobar
    /\ ~panicked

\* C7 (a pattern fed to its own matcher): a matcher with the single non-empty
\* pattern P fed exactly P in one write call returns exactly {0: len(P)}.
C7_PatternAlone ==
    (/\ phase = "ready"
     /\ Len(matchers) = 1
     /\ Len(matchers[1].sequence) > 0
     /\ calls = 1
     /\ stream = matchers[1].sequence)
        => (~panicked /\ res = [o \in {0} |-> Len(matchers[1].sequence)])

\* C7 witness: a pattern of at least two bytes has been fed to its own matcher.
C7_Witness ==
    /\ phase = "ready"
    /\ Len(matchers) = 1
    /\ Len(matchers[1].sequence) >= 2
    /\ calls = 1
    /\ stream = matchers[1].sequence
    /\ ~panicked

\* C8 (stream offset): after any sequence of write calls that returned,
\* currentIndex is the number of bytes passed so far, however they were
\* divided into chunks, and no step decreases it.
C8_StreamOffset ==
    /\ []((phase = "ready" /\ ~panicked) => currentIndex = Len(stream))
    /\ [][currentIndex' >= currentIndex]_vars

\* C8 witness: two non-empty chunks have been written.
C8_Witness ==
    /\ phase = "ready"
    /\ ~panicked
    /\ calls = 2
    /\ offsetBefore > 0
    /\ currentIndex > offsetBefore

\* C9 (merge-keep-longest): after any sequence of add calls the table holds,
\* for exactly the offsets inserted, the greatest length ever inserted for
\* each; so it depends on the set of insertions only, not on their order.
C9_MergeKeepLongest ==
    m = MergeLongest({history[i] : i \in 1..Len(history)})

\* C9 witness: (5,3) was inserted before (5,2), and another offset as well.
C9_Witness ==
    \E i \in 1..Len(history), j \in 1..Len(history), k \in 1..Len(history) :
        /\ i < j
        /\ history[i] = <<5, 3>>
        /\ history[j] = <<5, 2>>
        /\ history[k][1] # 5

\* C10 (a returned table holds only matches completed in its call): every
\* entry (o, L) of the table returned by a write call has o >= 0 and its last
\* byte in the chunk of that call: offsetBefore <= o+L-1 < offsetAfter.
C10_CompletedInCall ==
    (phase = "ready" /\ ~panicked) =>
        \A o \in DOMAIN res :
            /\ o >= 0
            /\ offsetBefore <= o + res[o] - 1
            /\ o + res[o] - 1 < currentIndex

\* C10 witness: a later call returned a match that began in an earlier chunk.
C10_Witness ==
    /\ phase = "ready"
    /\ ~panicked
    /\ calls >= 2
    /\ \E o \in DOMAIN res : o < offsetBefore

---------------------------------------------------------------------------
(* C11 .. C17: the detector's cursor *)

\* The byte values fed to writeByte in the properties below.
Bytes == Alphabet \cup {"f", "o", "r"}

\* The 0-based stream positions at which a fresh detector for the sequence
\* returns true when it is fed S byte by byte, from position i on with the
\* cursor cur.
RECURSIVE MatchEndsFrom(_, _, _, _)
MatchEndsFrom(sequence, S, i, cur) ==
    IF i >= Len(S) THEN {}
    ELSE LET r == writeByte(sequence, cur, S[i + 1])
         IN  IF r.panic THEN {}
             ELSE (IF r.match THEN {i} ELSE {})
                      \cup MatchEndsFrom(sequence, S, i + 1, r.currentIndex)

MatchEnds(sequence, S) == MatchEndsFrom(sequence, S, 0, 0)

\* The offsets in 1..c by which the prefix pattern[0 .. c) overlaps itself.
Shifts(sequence, c) ==
    {offset \in 1..c : SubSeq(sequence, 1, c - offset) = SubSeq(sequence, offset + 1, c)}

\* The lengths of the proper borders of pattern[0 .. c), the empty one included.
Borders(sequence, c) ==
    {n \in 0..(c - 1) : SubSeq(sequence, 1, n) = SubSeq(sequence, c - n + 1, c)}

MinOf(S) == CHOOSE x \in S : \A y \in S : x <= y

\* C11 (empty chunk): a write call with an empty chunk returns an empty table
\* and leaves currentIndex and every detector's cursor unchanged, without a
\* panic, in every reachable matcher state.
C11_EmptyChunkNoOp ==
    [][(calls' = calls + 1 /\ stream' = stream) =>
           /\ res' = EmptyMatches
           /\ currentIndex' = currentIndex
           /\ matchers' = matchers
           /\ ~panicked']_vars

\* C11 witness: an empty chunk was written after a chunk that left a cursor
\* in the middle of its pattern.
C11_Witness ==
    /\ phase = "ready"
    /\ ~panicked
    /\ calls = 2
    /\ offsetBefore = currentIndex
    /\ currentIndex > 0
    /\ \E k \in 1..Len(matchers) : matchers[k].currentIndex > 0

\* C12 (cursor meaning): with non-empty patterns, after every write the first
\* `cursor` bytes of each detector's pattern are the last `cursor` bytes of
\* the stream consumed so far.
C12_CursorIsSuffix ==
    Serving =>
        \A k \in 1..Len(matchers) :
            LET c == matchers[k].currentIndex
            IN  /\ c <= Len(stream)
                /\ SubSeq(matchers[k].sequence, 1, c)
                       = SubSeq(stream, Len(stream) - c + 1, Len(stream))

\* C13 (cursor range): with non-empty patterns every detector's cursor is in
\* 0 .. len(sequence)-1 after every write, and from every reachable cursor
\* writeByte of any byte indexes in bounds, leaves the cursor in that range,
\* and leaves it at 0 when it returns true.
C13_CursorInRange ==
    Serving =>
        \A k \in 1..Len(matchers) :
            LET seq == matchers[k].sequence
                c == matchers[k].currentIndex
            IN  /\ c >= 0
                /\ c < Len(seq)
                /\ \A b \in Bytes :
                       LET r == writeByte(seq, c, b)
                       IN  /\ ~r.panic
                           /\ r.currentIndex >= 0
                           /\ r.currentIndex < Len(seq)
                           /\ r.match => r.currentIndex = 0

\* C13 witness: a detector has just completed its pattern of two or more bytes.
C13_Witness ==
    /\ Serving
    /\ \E k \in 1..Len(matchers) :
           /\ Len(matchers[k].sequence) >= 2
           /\ matchers[k].currentIndex = 0
           /\ currentIndex - Len(matchers[k].sequence) \in DOMAIN res

\* C14 (findShift is the failure function): for every non-empty pattern and
\* every cursor c in 0 .. len-1, findShift returns 0 when c = 0 and otherwise
\* the smallest offset in 1..c with pattern[0 .. c-offset) = pattern[offset .. c),
\* which is c minus the length of the longest proper border of pattern[0 .. c);
\* so c - findShift is in 0..c.
C14_FindShiftIsFailureFunction ==
    Serving =>
        \A k \in 1..Len(matchers) :
            LET seq == matchers[k].sequence
            IN  \A c \in 0..(Len(seq) - 1) :
                    LET shift == findShift(seq, c)
                    IN  /\ c = 0 => shift = 0
                        /\ c > 0 => /\ shift = MinOf(Shifts(seq, c))
                                    /\ shift = c - MaxOf(Borders(seq, c))
                        /\ c - shift >= 0
                        /\ c - shift <= c

\* C14 witness: the foofoobar detector has used a shift by 3 at cursor 6.
C14_Witness ==
    /\ phase = "ready"
    /\ sequencesOf(matchers) = <<Foofoobar>>
    /\ stream = SubSeq(Foofoofoobar, 1, 7)
    /\ matchers[1].currentIndex = 4

\* C15 (one retry at most): with non-empty patterns, from every reachable
\* cursor writeByte of any byte returns after at most one self-call, and at
\* cursor 0 a mismatching byte is rejected without a self-call.
C15_AtMostOneRetry ==
    Serving =>
        \A k \in 1..Len(matchers) : \A b \in Bytes :
            LET seq == matchers[k].sequence
                c == matchers[k].currentIndex
                r == writeByte(seq, c, b)
            IN  /\ ~r.panic
                /\ r.depth <= 2
                /\ (c = 0 /\ seq[1] # b) =>
                       (r.depth = 1 /\ ~r.match /\ r.currentIndex = 0)

\* C15 witness: a detector is at a cursor from which some byte takes the retry.
C15_Witness ==
    /\ Serving
    /\ \E k \in 1..Len(matchers) : \E b \in Bytes :
           writeByte(matchers[k].sequence, matchers[k].currentIndex, b).depth = 2

\* C17 (matches of one detector do not overlap): with non-empty patterns, if
\* a detector for a pattern of length L returns true at stream positions
\* i < j, then j - i >= L.
C17_NoOverlapPerDetector ==
    Serving =>
        \A k \in 1..Len(matchers) :
            LET seq == matchers[k].sequence
                ends == MatchEnds(seq, stream)
            IN  \A i \in ends : \A j \in ends : i < j => j - i >= Len(seq)

\* C17 witness: a detector for a pattern of two or more bytes has returned
\* true twice, and an occurrence overlapping the first was in the stream.
C17_Witness ==
    /\ Serving
    /\ \E k \in 1..Len(matchers) :
           LET seq == matchers[k].sequence
           IN  /\ Len(seq) >= 2
               /\ Cardinality(MatchEnds(seq, stream)) >= 2
               /\ \E o \in 0..Len(stream) :
                      /\ Occurs(stream, o, seq)
                      /\ (o + Len(seq) - 1) \notin MatchEnds(seq, stream)

---------------------------------------------------------------------------
(* C16: concurrent write calls *)

\* The tables the two calls return and the final currentIndex when the call
\* of goroutine g runs to its end before the other call begins.
SerialOrder(g) ==
    LET h == CHOOSE x \in Goroutines : x # g
        first == write(newMatcher(sequencesOf(matchers)), goroutine[g].in)
        second == write([matchers |-> first.matchers,
                         currentIndex |-> first.currentIndex], goroutine[h].in)
    IN  [tables |-> [x \in Goroutines |-> IF x = g THEN first.res ELSE second.res],
         currentIndex |-> second.currentIndex]

BothReturned == \A g \in Goroutines : goroutine[g].stage = "done"

\* currentIndex is not the sum of the chunk lengths, or a call reported a
\* match offset that it reports in neither serial order of the two calls.
Corrupted ==
    \/ currentIndex # Len(goroutine[1].in) + Len(goroutine[2].in)
    \/ \E g \in Goroutines : \E o \in DOMAIN goroutine[g].res :
           \A first \in Goroutines : o \notin DOMAIN SerialOrder(first).tables[g]

\* C16 (a matcher is not safe for concurrent write calls): offset accounting
\* and reported offsets are corrupted only when the two calls interleave;
\* two calls that do not interleave leave currentIndex at the sum of the
\* chunk lengths and return the tables of that serial order. That a
\* corrupted state is reachable by interleaving is the witness.
C16_CorruptionNeedsInterleaving ==
    (BothReturned /\ ~interleaved) =>
        /\ ~Corrupted
        /\ \E first \in Goroutines :
               /\ SerialOrder(first).currentIndex = currentIndex
               /\ \A g \in Goroutines : SerialOrder(first).tables[g] = goroutine[g].res

\* C16 witness: both interleaved calls have returned, currentIndex is not the
\* sum of the chunk lengths and a reported offset is that of no serial order.
C16_Witness ==
    /\ BothReturned
    /\ interleaved
    /\ currentIndex # Len(goroutine[1].in) + Len(goroutine[2].in)
    /\ \E g \in Goroutines : \E o \in DOMAIN goroutine[g].res :
           \A first \in Goroutines : o \notin DOMAIN SerialOrder(first).tables[g]

---------------------------------------------------------------------------
(* C18 .. C20: RmCommand.Run *)

DeleteCalls == {"Dirs.Delete", "Secrets.Delete", "Versions.Delete"}

\* The positions in the log of the calls with one of the given names.
CallsTo(names) == {i \in 1..Len(rmLog) : rmLog[i][1] \in names}

Called(name, result) == \E i \in 1..Len(rmLog) : rmLog[i] = <<name, result>>

ErrorsOfRun ==
    {"err:newClient", "err:ToDirPath", "err:ToSecretPath", "err:GetVersion",
     "err:GetTree", "err:Confirm", "err:Delete", "ErrCannotRemoveRootDir",
     "ErrCannotRemoveDir", "ErrResourceNotFound", "ErrCannotDoWithoutForce"}

\* C18 (delete only after confirmation): Run issues at most one delete call,
\* and only if the force flag is set or the prompt returned confirmed before;
\* once the prompt could not be asked, returned an error or a name that does
\* not match, no delete call is issued.
C18_DeleteOnlyAfterConfirmation ==
    /\ Cardinality(CallsTo(DeleteCalls)) <= 1
    /\ \A i \in CallsTo(DeleteCalls) :
           \/ rmCmd.force
           \/ \E j \in 1..(i - 1) : rmLog[j] = <<"Confirm", "confirmed">>
    /\ (\E answer \in PromptResults \ {"confirmed"} : Called("Confirm", answer))
           => CallsTo(DeleteCalls) = {}

\* C18 witness: without the force flag, Run deleted after a confirmed prompt.
C18_Witness ==
    /\ rmPc = "done"
    /\ ~rmCmd.force
    /\ Called("Confirm", "confirmed")
    /\ CallsTo(DeleteCalls) # {}

\* C19, first half: a path without a version for which GetTree succeeds, the
\* recursive flag not set: Run returns ErrCannotRemoveDir without a prompt
\* and without a delete call.
DirNeedsRecursive ==
    (rmPc = "done" /\ ~rmCmd.hasVersion /\ Called("Dirs.GetTree", "ok") /\ ~rmCmd.recursive)
        => /\ rmRet = "ErrCannotRemoveDir"
           /\ CallsTo({"Confirm"} \cup DeleteCalls) = {}

RootDirRefused ==
    /\ rmRet = "ErrCannotRemoveRootDir"
    /\ CallsTo({"Dirs.GetTree", "Secrets.Get", "Confirm"} \cup DeleteCalls) = {}

\* C19 as stated (the -r flag is needed for a directory; a repository root is
\* refused): the first half, and whenever the path without a version is a
\* repository root Run returns ErrCannotRemoveRootDir before any client
\* lookup or delete, whatever the flags.
C19_DirNeedsRecursiveRootRefused ==
    /\ DirNeedsRecursive
    /\ (rmPc = "done" /\ ~rmCmd.hasVersion /\ rmCmd.dirPathOk /\ rmCmd.isRepoPath)
           => RootDirRefused

\* C19 as amended: the first half, and whenever newClient returned a client
\* and the path without a version is a repository root Run returns
\* ErrCannotRemoveRootDir before any client lookup or delete, whatever the flags.
C19_RootRefusedOnceClientCreated ==
    /\ DirNeedsRecursive
    /\ (/\ rmPc = "done"
        /\ Called("newClient", "ok")
        /\ ~rmCmd.hasVersion /\ rmCmd.dirPathOk /\ rmCmd.isRepoPath)
           => RootDirRefused

\* C19 witness: Run has refused an existing directory for want of -r.
C19_Witness ==
    /\ rmPc = "done"
    /\ ~rmCmd.hasVersion
    /\ ~rmCmd.recursive
    /\ rmCmd.force
    /\ Called("Dirs.GetTree", "ok")

===========================================================================
